---- MODULE Spec2Model ----
(***************************************************************************)
(* Math tutor backend (src/backend/main.py) and its chat client            *)
(* (src/frontend/app.py): the agent/session lifecycle.                     *)
(*                                                                         *)
(* Each service process owns one AgentManager (its cache of the remote     *)
(* agent id) and runs one request handler at a time: the handlers are      *)
(* `async def` functions without an await, so the event loop of a process  *)
(* runs each of them to completion before the next.  Processes share the   *)
(* agent platform (agents, threads, runs) and the blob store, and          *)
(* interleave at every remote call.                                        *)
(*                                                                         *)
(* Texts (error messages, details, replies) are sequences of characters,   *)
(* so that str.lower() and the substring tests of the code are computed.   *)
(***************************************************************************)
EXTENDS Integers, Sequences, FiniteSets, TLC

\* ------------------------------------------------------------ bounds
\* Handler invocations (HTTP requests and startup events) over all processes.
MaxRequests == 3
\* Remote calls that fail with a transient error, over the whole run.
MaxFaults == 3
\* The clock stops being advanced by the environment beyond this time.
MaxTime == 300
\* Calls of process_image made on its own.
MaxImageCalls == 3
\* The largest max_attempts a function called on its own is decorated with.
MaxAttemptsArg == 3

\* ------------------------------------------------- program constants
\* AgentManager._check_interval
CheckInterval == 300
\* chat: create_and_process(..., timeout=60)
RunTimeout == 60
\* @retry(max_attempts=3, delay=2, ...) on get_or_create_agent; backoff default
RetryMaxAttempts == 3
RetryDelay == 2
RetryBackoff == 2
\* BackendClient.send_message: retry_count < 2; time.sleep(2)
FrontendMaxRetries == 2
FrontendRetrySleep == 2

AGENT_NAME == "math-tutor-agent"
OtherAgentName == "other-agent"

Procs == {"p1", "p2"}
\* self.agent_id = None
NoAgent == 0
\* a thread id the platform never issued ("invalid-thread-id" of the tests)
InvalidThreadId == 0

\* ------------------------------------------------------------- texts
UPPER == <<"A","B","C","D","E","F","G","H","I","J","K","L","M","N","O","P","Q","R","S","T","U","V","W","X","Y","Z">>
LOWER == <<"a","b","c","d","e","f","g","h","i","j","k","l","m","n","o","p","q","r","s","t","u","v","w","x","y","z">>

UpperChars == {UPPER[i] : i \in 1..Len(UPPER)}
ToLower == [c \in UpperChars |-> LOWER[CHOOSE i \in 1..Len(UPPER) : UPPER[i] = c]]

LowerChar(c) == IF c \in UpperChars THEN ToLower[c] ELSE c

\* str.lower()
StrLower(s) == [i \in 1..Len(s) |-> LowerChar(s[i])]

\* needle in hay
StrContains(needle, hay) ==
    \E i \in 1..(Len(hay) - Len(needle) + 1) :
        SubSeq(hay, i, i + Len(needle) - 1) = needle

RUN_FAILED_PREFIX == <<"A","g","e","n","t"," ","r","u","n"," ","f","a","i","l","e","d",":"," ">>
\* main.py:709 (the accented letters of the source written without accent)
THREAD_DETAIL == <<"T","h","r","e","a","d"," ","i","n","v","a","l","i","d","o"," ","o"," ","e","x","p","i","r","a","d","o","."," ","I","n","i","c","i","a"," ","u","n","a"," ","n","u","e","v","a"," ","c","o","n","v","e","r","s","a","c","i","o","n",".">>
AGENT_DETAIL == <<"S","e","r","v","i","c","i","o"," ","d","e"," ","a","g","e","n","t","e"," ","n","o"," ","d","i","s","p","o","n","i","b","l","e"," ","t","e","m","p","o","r","a","l","m","e","n","t","e",".">>
FALLBACK_REPLY == <<"N","o"," ","p","u","d","e"," ","g","e","n","e","r","a","r"," ","u","n","a"," ","r","e","s","p","u","e","s","t","a","."," ","P","o","r"," ","f","a","v","o","r",","," ","i","n","t","e","n","t","a"," ","d","e"," ","n","u","e","v","o",".">>
NEEDLE_NOT_FOUND == <<"n","o","t"," ","f","o","u","n","d">>
NEEDLE_THREAD == <<"t","h","r","e","a","d">>
NEEDLE_AGENT == <<"a","g","e","n","t">>

\* Errors the platform client raises: a transient transport error, a service
\* error that names the agent service, and the rejection of an unknown thread.
ErrTimeout == <<"C","o","n","n","e","c","t","i","o","n"," ","t","i","m","e","d"," ","o","u","t">>
ErrAgentBusy == <<"A","g","e","n","t"," ","s","e","r","v","i","c","e"," ","u","n","a","v","a","i","l","a","b","l","e">>
ErrThreadNotFound == <<"N","o"," ","t","h","r","e","a","d"," ","f","o","u","n","d"," ","w","i","t","h"," ","i","d">>
TransientErrors == {ErrTimeout, ErrAgentBusy}

\* str(run.last_error) of a failed run
LastErrAgentNotFound == <<"a","g","e","n","t"," ","n","o","t"," ","f","o","u","n","d">>
LastErrNotFound == <<"R","e","s","o","u","r","c","e"," ","N","o","t"," ","F","o","u","n","d">>
LastErrRateLimit == <<"r","a","t","e"," ","l","i","m","i","t"," ","e","x","c","e","e","d","e","d">>
LastErrors == {LastErrAgentNotFound, LastErrNotFound, LastErrRateLimit}

\* RunStatus values create_and_process can return: it polls while the run is
\* queued, in progress or requires action.
ReturnedRunStatus == {"completed", "failed", "expired"}

\* ---------------------------------------------------------- messages
\* Content parts of a message: a text part whose .text has a .value, a text
\* part whose .text is a plain string, an image part (no .text).
TextPart(v) == [type |-> "text", value |-> v]
PlainTextPart(v) == [type |-> "text_plain", value |-> v]
ImagePart(f) == [type |-> "image_file", file_id |-> f]
ListContent(parts) == [kind |-> "list", parts |-> parts]
StrContent(s) == [kind |-> "str", value |-> s]

UserTexts == {<<"2","+","2">>}
\* File ids of the images the agent's code interpreter produced.
FileId1 == <<"f","1">>
FileId2 == <<"f","2">>
FileIds == {FileId1, FileId2}

\* What the platform can put in the assistant message of a completed run.
AssistantContents ==
    { ListContent(<<TextPart(<<"a">>), TextPart(<<"b">>)>>),
      ListContent(<<ImagePart(FileId1), TextPart(<<"b">>), PlainTextPart(<<"a">>)>>),
      ListContent(<<ImagePart(FileId2), ImagePart(FileId1)>>),
      StrContent(<<"s">>) }

VARIABLES
    now,            \* time.time()
    agents,         \* platform: the agents, records [id, name]
    agent_seq,      \* platform: agent ids issued so far
    threads,        \* platform: thread id -> its messages, oldest first
    blobs,          \* blob store: names of the blobs of the images container
    faults,         \* transient failures injected so far
    requests,       \* handler invocations so far
    agent_manager,  \* per process: AgentManager fields
    pc,             \* per process: position of the running handler
    req,            \* per process: the request being handled
    loc,            \* per process: locals of the handler and of retry's wrapper
    calls,          \* per process: remote calls made by the running handler
    resp,           \* per process: the response of the last request
    client,         \* per process: the caller of /chat (retry_count, runs of the turn)
    blob_service_client, \* per process: TRUE when the blob client exists (not None)
    env,            \* per process: the settings read on import and the project client
    retry_call,     \* a call of a function decorated with retry(...): the wrapper's frame
    image_call      \* a call of process_image(image_content): its frame

vars == <<now, agents, agent_seq, threads, blobs, faults, requests,
          agent_manager, pc, req, loc, calls, resp, client,
          blob_service_client, env, retry_call, image_call>>

\* AgentManager.__init__
NewAgentManager == [agent_id |-> NoAgent, last_check_time |-> 0, active_threads |-> {}]

\* The run create_and_process(thread_id, agent_id, timeout=60) returned:
\* its status and last_error, what it was bound to, and the seconds the
\* call waited for it.
Run(status, last_error, thread_id, agent_id, waited) ==
    [status |-> status, last_error |-> last_error, thread_id |-> thread_id,
     agent_id |-> agent_id, waited |-> waited]
NoRun == Run("none", <<>>, InvalidThreadId, NoAgent, 0)
NewLocals == [attempt |-> 1, current_delay |-> RetryDelay, current_time |-> 0,
              agent_id |-> NoAgent, run |-> NoRun, error |-> <<>>, image |-> "none"]
NoRequest == [kind |-> "none", thread_id |-> InvalidThreadId, turn |-> 0]
\* The JSON body of the responses of /health and of the admin endpoints.
NoBody == [status |-> "none"]
NoResponse == [status |-> 0, detail |-> <<>>, reply |-> <<>>, image_url |-> <<>>,
               thread_id |-> InvalidThreadId, body |-> NoBody]
NewClient == [retry_count |-> 0, runs |-> 0]
\* The settings main.py reads from the environment on import: IS_LOCAL,
\* DEBUG_MODE, and whether the credential, PROJECT_ENDPOINT,
\* STORAGE_ACCOUNT_NAME and MODEL_DEPLOYMENT_NAME are there.
DefaultSettings ==
    [is_local |-> TRUE, debug_mode |-> FALSE, credential |-> TRUE,
     project_endpoint |-> TRUE, storage_account |-> TRUE, model_deployment |-> TRUE]

\* initialize_azure_clients(): the clients it leaves (TRUE: not None) and the
\* value it returns, when the connection checks of the project client and
\* of the container end as project_ok and blob_ok say.
ClientsAfterInit(settings, project_ok, blob_ok) ==
    LET project == settings.credential /\ settings.project_endpoint /\ project_ok
        blob == settings.credential /\ settings.storage_account /\ blob_ok
    IN [project_client |-> project,
        blob_service_client |-> blob,
        clients_initialized |-> /\ settings.credential
                                /\ project
                                /\ (settings.storage_account => blob)]

\* The environment of a process: its settings and what
\* initialize_azure_clients() left of the project client.
Environment(settings, clients) ==
    [settings |-> settings, project_client |-> clients.project_client,
     clients_initialized |-> clients.clients_initialized]
NewEnvironment == Environment(DefaultSettings, ClientsAfterInit(DefaultSettings, TRUE, TRUE))

\* No decorated function is being called outside the handlers.
NoRetryCall == [state |-> "none"]
\* process_image is not being called outside the handlers.
NoImageCall == [state |-> "none"]

Init ==
    /\ now = 0
    /\ agents = {[id |-> 1, name |-> OtherAgentName]}
    /\ agent_seq = 1
    /\ threads = <<>>
    /\ blobs = {}
    /\ faults = 0
    /\ requests = 0
    /\ agent_manager = [p \in Procs |-> NewAgentManager]
    /\ pc = [p \in Procs |-> "idle"]
    /\ req = [p \in Procs |-> NoRequest]
    /\ loc = [p \in Procs |-> NewLocals]
    /\ calls = [p \in Procs |-> <<>>]
    /\ resp = [p \in Procs |-> NoResponse]
    /\ client = [p \in Procs |-> NewClient]
    /\ blob_service_client = [p \in Procs |-> TRUE]
    /\ env = [p \in Procs |-> NewEnvironment]
    /\ retry_call = NoRetryCall
    /\ image_call = NoImageCall


\* ------------------------------------------------------ AgentManager
\* Mutant of reset_agent: the thread bookkeeping is kept.
reset_agent_KeepThreads(m) == [m EXCEPT !.agent_id = NoAgent, !.last_check_time = 0]

\* AgentManager.reset_agent
reset_agent(m) == [m EXCEPT !.agent_id = NoAgent,
                            !.last_check_time = 0,
                            !.active_threads = {}]

\* Mutant of CacheHit: the comparison with the interval reversed.
CacheHit_Reversed(m, current_time) ==
    /\ m.agent_id # NoAgent
    /\ (current_time - m.last_check_time) > CheckInterval

\* get_or_create_agent: "if self.agent_id and (current_time - self._last_check_time) < self._check_interval"
CacheHit(m, current_time) ==
    /\ m.agent_id # NoAgent
    /\ (current_time - m.last_check_time) < CheckInterval

\* Mutant of AgentsNamed: the search compares another attribute and never matches.
AgentsNamed_NoMatch(listing, name) == {a \in listing : a.name = name /\ a.name = OtherAgentName}

\* get_or_create_agent: the agents of the listing whose name is the configured
\* name; the loop returns the first of them in the order of the listing, an
\* order the platform chooses.
AgentsNamed(listing, name) == {a \in listing : a.name = name}

\* Mutant of CacheAgent: the validation time is not renewed.
CacheAgent_KeepTime(m, id, current_time) == [m EXCEPT !.agent_id = id]

\* get_or_create_agent: "self.agent_id = agent.id; self._last_check_time = current_time"
CacheAgent(m, id, current_time) ==
    [m EXCEPT !.agent_id = id, !.last_check_time = current_time]

\* Mutant of AgentFailureManager: the except clause leaves the cached id.
AgentFailureManager_Keep(m) == m

\* get_or_create_agent: "except Exception as e: ... self.agent_id = None; raise"
AgentFailureManager(m) == [m EXCEPT !.agent_id = NoAgent]

\* retry.wrapper: "if attempt == max_attempts: raise"
RetryExhausted(attempt) == attempt = RetryMaxAttempts

\* ------------------------------------------------ handlers' except clauses
MentionsThread(e) == StrContains(NEEDLE_THREAD, StrLower(e))
MentionsAgent(e) == StrContains(NEEDLE_AGENT, StrLower(e))

\* Mutant of StaleAgentError: the test without .lower().
StaleAgentError_CaseSensitive(last_error) == StrContains(NEEDLE_NOT_FOUND, last_error)

\* chat: "if 'not found' in str(run.last_error).lower()"
StaleAgentError(last_error) == StrContains(NEEDLE_NOT_FOUND, StrLower(last_error))

\* Mutant of ChatErrorDetail: the branch for "thread" missing.
ChatErrorDetail_NoThread(e) == IF MentionsAgent(e) THEN AGENT_DETAIL ELSE e

\* chat, except Exception: the detail of the 500 response
ChatErrorDetail(e) ==
    IF MentionsThread(e) THEN THREAD_DETAIL
    ELSE IF MentionsAgent(e) THEN AGENT_DETAIL
    ELSE e

\* chat, except Exception: "elif 'agent' in error_detail.lower(): ... agent_manager.reset_agent()"
ChatErrorManager(m, e) ==
    IF ~MentionsThread(e) /\ MentionsAgent(e) THEN reset_agent(m) ELSE m

\* start_chat, except Exception: "if 'agent' in str(e).lower(): agent_manager.reset_agent()"
StartChatErrorManager(m, e) ==
    IF MentionsAgent(e) THEN reset_agent(m) ELSE m

\* The manager after exception e left the try block of the handler of a
\* request of this kind (startup_event only logs it).
ExceptManager(kind, m, e) ==
    CASE kind = "chat" -> ChatErrorManager(m, e)
      [] kind = "start_chat" -> StartChatErrorManager(m, e)
      [] OTHER -> m

\* The response of the handler after exception e: HTTPException(status_code=500, ...)
ExceptResponse(kind, old, e) ==
    CASE kind = "chat" -> [NoResponse EXCEPT !.status = 500, !.detail = ChatErrorDetail(e)]
      [] kind = "start_chat" -> [NoResponse EXCEPT !.status = 500, !.detail = e]
      [] OTHER -> old

EndOfHandler(kind) ==
    CASE kind = "startup" -> "idle"
      [] kind = "health" -> "health_storage"
      [] OTHER -> "done"

\* Where the handler goes on once get_or_create_agent returned.
AfterEnsure(kind) ==
    CASE kind = "chat" -> "create_message"
      [] kind = "start_chat" -> "create_thread"
      [] kind = "health" -> "health_storage"
      [] OTHER -> "idle"

\* ------------------------------------------------------- step fragments
Update(p, m, l, r, c, next) ==
    /\ agent_manager' = [agent_manager EXCEPT ![p] = m]
    /\ loc' = [loc EXCEPT ![p] = l]
    /\ resp' = [resp EXCEPT ![p] = r]
    /\ calls' = [calls EXCEPT ![p] = c]
    /\ pc' = [pc EXCEPT ![p] = next]

\* Exception e reaches the except clause of the handler.
Raise(p, m, l, c, e) ==
    Update(p, ExceptManager(req[p].kind, m, e),
           [NewLocals EXCEPT !.agent_id = l.agent_id, !.run = l.run, !.error = e],
           ExceptResponse(req[p].kind, resp[p], e), c, EndOfHandler(req[p].kind))

\* get_or_create_agent returns id to the handler: the locals of the function
\* and of retry.wrapper are gone, the handler holds agent_id.
EnsureReturn(p, m, l, c, id) ==
    Update(p, m, [NewLocals EXCEPT !.agent_id = id], resp[p], c, AfterEnsure(req[p].kind))

\* A remote call of get_or_create_agent raised e: the except clause of the
\* function, then retry.wrapper (sleep and call again, or raise).
AgentCallFails(p, l, c, e) ==
    LET m == AgentFailureManager(agent_manager[p]) IN
    IF RetryExhausted(l.attempt)
    THEN /\ Raise(p, m, l, c, e)
         /\ now' = now
    ELSE /\ Update(p, m,
                   [l EXCEPT !.attempt = @ + 1,
                             !.current_delay = @ * RetryBackoff],
                   resp[p], c, "ensure")
         /\ now' = now + l.current_delay

\* ------------------------------------------------- get_or_create_agent
\* Entry of get_or_create_agent (each attempt of retry.wrapper): the cache
\* test, then agents.list() and the search by name.
GetOrCreateAgent(p) ==
    /\ pc[p] = "ensure"
    /\ LET m == agent_manager[p]
           l == [loc[p] EXCEPT !.current_time = now]
           c == Append(calls[p], "agents.list")
       IN
       \/ /\ CacheHit(m, l.current_time)
          /\ EnsureReturn(p, m, l, calls[p], m.agent_id)
          /\ UNCHANGED <<now, faults>>
       \/ /\ ~CacheHit(m, l.current_time)
          /\ faults < MaxFaults
          /\ \E e \in TransientErrors : AgentCallFails(p, l, c, e)
          /\ faults' = faults + 1
       \/ /\ ~CacheHit(m, l.current_time)
          /\ \E a \in AgentsNamed(agents, AGENT_NAME) :
                EnsureReturn(p, CacheAgent(m, a.id, l.current_time), l, c, a.id)
          /\ UNCHANGED <<now, faults>>
       \/ /\ ~CacheHit(m, l.current_time)
          /\ AgentsNamed(agents, AGENT_NAME) = {}
          /\ Update(p, m, l, resp[p], c, "create")
          /\ UNCHANGED <<now, faults>>
    /\ UNCHANGED <<blob_service_client, env, retry_call, image_call>>
    /\ UNCHANGED <<agents, agent_seq, threads, blobs, requests, req, client>>

\* get_or_create_agent: agents.create_agent(...) after a listing without the name.
CreateAgent(p) ==
    /\ pc[p] = "create"
    /\ LET m == agent_manager[p]
           l == loc[p]
           c == Append(calls[p], "agents.create_agent")
           id == agent_seq + 1
       IN
       \/ /\ faults < MaxFaults
          /\ \E e \in TransientErrors : AgentCallFails(p, l, c, e)
          /\ faults' = faults + 1
          /\ UNCHANGED <<agents, agent_seq>>
       \/ /\ agents' = agents \cup {[id |-> id, name |-> AGENT_NAME]}
          /\ agent_seq' = id
          /\ EnsureReturn(p, CacheAgent(m, id, l.current_time), l, c, id)
          /\ UNCHANGED <<now, faults>>
    /\ UNCHANGED <<blob_service_client, env, retry_call, image_call>>
    /\ UNCHANGED <<threads, blobs, requests, req, client>>


\* ----------------------------------------------------------- platform
KnownThread(tid) == tid \in 1..Len(threads)

\* The message of a request; turn is the number of the request that sent it.
UserMessage(text, turn) ==
    [role |-> "user", content |-> ListContent(<<TextPart(text)>>), turn |-> turn]
AssistantMessage(content) == [role |-> "assistant", content |-> content]

Reverse(s) == [i \in 1..Len(s) |-> s[Len(s) + 1 - i]]

\* Mutant of AppendMessage: the message is put before the others.
AppendMessage_Front(thread, message) == <<message>> \o thread

\* agents.messages.create(thread_id, ...): the message becomes the newest
\* of the thread
AppendMessage(thread, message) == Append(thread, message)

\* Seconds create_and_process can take before it returns a run: fewer than
\* the timeout passed to it, or more (the keyword bounds each HTTP request
\* of the call, the polling of the run goes on until the run is terminal).
RunWaits == {1, RunTimeout + 1}

\* Mutant of MessagesList: the listing oldest first.
MessagesList_Ascending(thread) == thread

\* agents.messages.list(thread_id): the messages of the thread, newest first
MessagesList(thread) == Reverse(thread)

\* ------------------------------------------------- chat: the reply
\* chat: the text one content part adds to the reply ("if hasattr(content, 'text')")
PartText(part) ==
    CASE part.type = "text" -> part.value
      [] part.type = "text_plain" -> part.value
      [] OTHER -> <<>>

RECURSIVE ConcatText(_)
ConcatText(parts) ==
    IF parts = <<>> THEN <<>>
    ELSE PartText(Head(parts)) \o ConcatText(Tail(parts))

\* chat: the text taken from message.content (a string, or a list of parts)
MessageText(content) ==
    IF content.kind = "str" THEN content.value
    ELSE ConcatText(content.parts)

\* message.image_contents: the image parts of the message, in order
ImageContents(content) ==
    IF content.kind = "str" THEN <<>>
    ELSE SelectSeq(content.parts, LAMBDA part : part.type = "image_file")

\* chat: "for message in messages: if message.role == 'assistant': ... break":
\* the position in the listing of the message the reply is taken from, 0 if none
SelectedMessage(messages) ==
    IF \E i \in 1..Len(messages) : messages[i].role = "assistant"
    THEN CHOOSE i \in 1..Len(messages) :
            /\ messages[i].role = "assistant"
            /\ \A j \in 1..(i - 1) : messages[j].role # "assistant"
    ELSE 0

\* chat: reply after the loop over the listing
LoopReply(messages) ==
    IF SelectedMessage(messages) = 0 THEN <<>>
    ELSE MessageText(messages[SelectedMessage(messages)].content)

\* Mutant of ReplyOrFallback: no fallback.
ReplyOrFallback_None(reply) == reply

\* chat: "if not reply: reply = 'No pude generar una respuesta. ...'"
ReplyOrFallback(reply) == IF reply = <<>> THEN FALLBACK_REPLY ELSE reply

\* ------------------------------------------------------ process_image
\* process_image: blob_name = f"{file_id}.png"
BlobName(file_id) == file_id \o <<".","p","n","g">>
\* blob_client.url of the blob in the images container
BlobUrl(blob_name) == <<"i","m","a","g","e","s","/">> \o blob_name

\* image_url = None
NoUrl == <<>>
\* No exception.
NoError == "none"
\* Outcome of a remote call: it returns, or raises.
CallOutcomes == {"ok", "error"}

\* The outcomes to consider for a remote call: both when the call is made,
\* one (which is not looked at) when the code does not reach the call.
MadeCallOutcomes(made) == IF made THEN CallOutcomes ELSE {"ok"}

\* "image_content.image_file.file_id if hasattr(image_content, 'image_file')
\* else image_content.file_id": the object carries a file id, or the
\* attribute access raises AttributeError.
HasFileId(image_content) == "file_id" \in DOMAIN image_content

\* Mutant of UploadBlob: the flag is ignored, an existing blob is never replaced.
UploadBlob_NoOverwrite(store, blob_name, overwrite) ==
    IF blob_name \in store
    THEN [raised |-> "ResourceExistsError", store |-> store]
    ELSE [raised |-> NoError, store |-> store \cup {blob_name}]

\* blob_client.upload_blob(data, overwrite=..., content_settings=...) reaching
\* the store: an existing blob is replaced when overwrite is set, and the
\* call raises ResourceExistsError when it is not.
UploadBlob(store, blob_name, overwrite) ==
    IF blob_name \in store /\ ~overwrite
    THEN [raised |-> "ResourceExistsError", store |-> store]
    ELSE [raised |-> NoError, store |-> store \cup {blob_name}]

\* No data was handed to upload_blob.
NoData == <<>>
\* The bytes of the image file of this id.
ImageData(file_id) == <<"P","N","G">> \o file_id

\* The values agents.files.download may return: bytes, another bytes-like
\* object, a str, a dict, an iterator of chunks.
Bytes(data) == [type |-> "bytes", data |-> data]
ByteArray(data) == [type |-> "bytearray", data |-> data]
Text(data) == [type |-> "str", data |-> data]
Dict(items) == [type |-> "dict", items |-> items]
Iterator(data) == [type |-> "iterator", data |-> data]

\* Mutant of Normalize: a dict is not unwrapped.
Normalize_Keep(file_content) == file_content

\* process_image: "if isinstance(file_content, dict): image_bytes =
\* file_content.get('content', file_content) else: image_bytes = file_content"
Normalize(file_content) ==
    IF file_content.type = "dict" /\ "content" \in DOMAIN file_content.items
    THEN file_content.items.content
    ELSE file_content

\* process_image: what upload_blob is given.  bytes go as they are; anything
\* else goes through io.BytesIO(image_bytes), which copies a bytes-like
\* object and raises TypeError for every other value.
UploadData(image_bytes) ==
    IF image_bytes.type \in {"bytes", "bytearray"}
    THEN [raised |-> NoError, data |-> image_bytes.data]
    ELSE [raised |-> "TypeError", data |-> NoData]

\* What process_image leaves: the exception that left it (NoError when it
\* returned), the value returned, the store, the remote calls it made, the
\* number of them that raised, and the return statement it took.
ImageResult(raised, url, store, made, errors, outcome) ==
    [raised |-> raised, url |-> url, store |-> store, calls |-> made,
     errors |-> errors, outcome |-> outcome, uploaded |-> NoData]

\* process_image, the body of its try block.  download and upload say
\* whether agents.files.download and the transfer of upload_blob raise,
\* file_content is what the download returns.
ProcessImageTry(image_content, download, file_content, upload, store) ==
    IF ~HasFileId(image_content)
    THEN ImageResult("AttributeError", NoUrl, store, <<>>, 0, "error")
    ELSE IF download = "error"
    THEN ImageResult("AzureError", NoUrl, store, <<"files.download">>, 1, "error")
    ELSE IF UploadData(Normalize(file_content)).raised # NoError
    THEN ImageResult(UploadData(Normalize(file_content)).raised, NoUrl, store,
                     <<"files.download">>, 0, "error")
    ELSE IF upload = "error"
    THEN ImageResult("AzureError", NoUrl, store,
                     <<"files.download", "upload_blob">>, 1, "error")
    ELSE LET blob_name == BlobName(image_content.file_id)
             up == UploadBlob(store, blob_name, TRUE)
         IN IF up.raised # NoError
            THEN ImageResult(up.raised, NoUrl, store,
                             <<"files.download", "upload_blob">>, 0, "error")
            ELSE [ImageResult(NoError, BlobUrl(blob_name), up.store,
                              <<"files.download", "upload_blob">>, 0, "stored")
                    EXCEPT !.uploaded = UploadData(Normalize(file_content)).data]

\* Mutant of ProcessImage: no except clause.
ProcessImage_NoExcept(configured, image_content, download, file_content, upload, store) ==
    IF ~configured
    THEN ImageResult(NoError, NoUrl, store, <<>>, 0, "not_configured")
    ELSE ProcessImageTry(image_content, download, file_content, upload, store)

\* process_image(image_content): "if not blob_service_client: return None",
\* the try block, "except Exception as e: ... return None".
ProcessImage(configured, image_content, download, file_content, upload, store) ==
    IF ~configured
    THEN ImageResult(NoError, NoUrl, store, <<>>, 0, "not_configured")
    ELSE LET t == ProcessImageTry(image_content, download, file_content, upload, store)
         IN IF t.raised # NoError
            THEN [t EXCEPT !.raised = NoError, !.url = NoUrl]
            ELSE t

\* Platform: agents.files.download(file_id) of a run's image returns the
\* bytes of the file.
FileContent(image_content) ==
    Bytes(IF HasFileId(image_content) THEN ImageData(image_content.file_id) ELSE NoData)

\* Mutant of ChatImage: the last image of the message.
ChatImage_Last(configured, images, download, upload, store) ==
    IF images = <<>>
    THEN ImageResult(NoError, NoUrl, store, <<>>, 0, "none")
    ELSE ProcessImage(configured, images[Len(images)], download,
                      FileContent(images[Len(images)]), upload, store)

\* chat: "if ... message.image_contents: try: image_url =
\* process_image(message.image_contents[0]) except Exception: (logged)"
ChatImage(configured, images, download, upload, store) ==
    IF images = <<>>
    THEN ImageResult(NoError, NoUrl, store, <<>>, 0, "none")
    ELSE LET r == ProcessImage(configured, images[1], download,
                               FileContent(images[1]), upload, store)
         IN IF r.raised # NoError
            THEN [r EXCEPT !.raised = NoError, !.url = NoUrl]
            ELSE r

\* ------------------------------------------------------- start_chat
\* Mutant of RegisterThread: the thread is not recorded.
RegisterThread_None(m, tid) == m

\* create_thread: "self.active_threads[thread.id] = thread"
RegisterThread(m, tid) == [m EXCEPT !.active_threads = @ \cup {tid}]

\* start_chat: agent_manager.create_thread() and the response.
CreateThread(p) ==
    /\ pc[p] = "create_thread"
    /\ LET m == agent_manager[p]
           c == Append(calls[p], "threads.create")
           tid == Len(threads) + 1
       IN
       \/ /\ faults < MaxFaults
          /\ \E e \in TransientErrors : Raise(p, m, loc[p], c, e)
          /\ faults' = faults + 1
          /\ UNCHANGED threads
       \/ /\ threads' = Append(threads, <<>>)
          /\ Update(p, RegisterThread(m, tid), loc[p],
                    [NoResponse EXCEPT !.status = 200, !.thread_id = tid], c, "done")
          /\ UNCHANGED faults
    /\ UNCHANGED <<blob_service_client, env, retry_call, image_call>>
    /\ UNCHANGED <<now, agents, agent_seq, blobs, requests, req, client>>

\* ------------------------------------------------------------- chat
\* Mutant of ThreadUsable: only a thread the manager has recorded.
ThreadUsable_Local(m, thread_id) == KnownThread(thread_id) /\ thread_id \in m.active_threads

\* chat: request.thread_id goes to the platform as it is; whether the
\* platform knows the thread decides, and m.active_threads is not read.
ThreadUsable(m, thread_id) == KnownThread(thread_id)

\* chat: agents.messages.create(thread_id, role="user", content)
ChatCreateMessage(p) ==
    /\ pc[p] = "create_message"
    /\ LET m == agent_manager[p]
           c == Append(calls[p], "messages.create")
           tid == req[p].thread_id
       IN
       \/ /\ ~ThreadUsable(m, tid)
          /\ Raise(p, m, loc[p], c, ErrThreadNotFound)
          /\ UNCHANGED <<threads, faults>>
       \/ /\ faults < MaxFaults
          /\ \E e \in TransientErrors : Raise(p, m, loc[p], c, e)
          /\ faults' = faults + 1
          /\ UNCHANGED threads
       \/ /\ ThreadUsable(m, tid)
          /\ \E text \in UserTexts :
                threads' = [threads EXCEPT
                              ![tid] = AppendMessage(@, UserMessage(text, req[p].turn))]
          /\ Update(p, m, loc[p], resp[p], c, "run")
          /\ UNCHANGED faults
    /\ UNCHANGED <<blob_service_client, env, retry_call, image_call>>
    /\ UNCHANGED <<now, agents, agent_seq, blobs, requests, req, client>>

\* Platform: the agent a run is created for exists; a run for an id the
\* platform does not know does not complete.
KnownAgent(id) == \E a \in agents : a.id = id

\* chat: run = agents.runs.create_and_process(thread_id, agent_id, timeout=60)
\* and the test of run.status.
ChatRun(p) ==
    /\ pc[p] = "run"
    /\ LET m == agent_manager[p]
           c == Append(calls[p], "runs.create_and_process")
           tid == req[p].thread_id
           ran == [client EXCEPT ![p].runs = @ + 1]
       IN
       \/ /\ faults < MaxFaults
          /\ \E e \in TransientErrors : Raise(p, m, loc[p], c, e)
          /\ faults' = faults + 1
          /\ UNCHANGED <<threads, client>>
       \/ \* completed: the platform appended the assistant's message
          /\ KnownAgent(loc[p].agent_id)
          /\ \E content \in AssistantContents :
                threads' = [threads EXCEPT ![tid] = Append(@, AssistantMessage(content))]
          /\ \E waited \in RunWaits :
                Update(p, m,
                       [loc[p] EXCEPT !.run = Run("completed", <<>>, tid,
                                                  loc[p].agent_id, waited)],
                       resp[p], c, "list_messages")
          /\ client' = ran
          /\ UNCHANGED faults
       \/ \* a status other than failed, and no new message in the thread
          /\ \E st \in ReturnedRunStatus \ {"failed"} :
                Update(p, m,
                       [loc[p] EXCEPT !.run = Run(st, <<>>, tid, loc[p].agent_id,
                                                  IF st = "expired" THEN RunTimeout + 1
                                                  ELSE 1)],
                       resp[p], c, "list_messages")
          /\ client' = ran
          /\ UNCHANGED <<threads, faults>>
       \/ \* failed: "if run.status == 'failed'": HTTPException(500, "Agent run failed: ...")
          /\ \E le \in LastErrors :
                Update(p, IF StaleAgentError(le) THEN reset_agent(m) ELSE m,
                       [loc[p] EXCEPT !.run = Run("failed", le, tid, loc[p].agent_id, 1)],
                       [NoResponse EXCEPT !.status = 500, !.detail = RUN_FAILED_PREFIX \o le],
                       c, "done")
          /\ client' = ran
          /\ UNCHANGED <<threads, faults>>
    /\ UNCHANGED <<blob_service_client, env, retry_call, image_call>>
    /\ UNCHANGED <<now, agents, agent_seq, blobs, requests, req>>

\* Mutant of ListedThread: the listing of the oldest thread.
ListedThread_First(ts, thread_id) == ts[1]

\* chat: "agents.messages.list(thread_id=request.thread_id)": the thread listed.
ListedThread(ts, thread_id) == ts[thread_id]

\* chat: agents.messages.list(thread_id), the reply, process_image on the
\* first image of the selected message, and the response.
ChatListMessages(p) ==
    /\ pc[p] = "list_messages"
    /\ LET m == agent_manager[p]
           c == Append(calls[p], "messages.list")
           messages == MessagesList(ListedThread(threads, req[p].thread_id))
           sel == SelectedMessage(messages)
           images == IF sel = 0 THEN <<>> ELSE ImageContents(messages[sel].content)
           ok == [NoResponse EXCEPT !.status = 200,
                                    !.reply = ReplyOrFallback(LoopReply(messages))]
       IN
       \/ /\ faults < MaxFaults
          /\ \E e \in TransientErrors : Raise(p, m, loc[p], c, e)
          /\ faults' = faults + 1
          /\ UNCHANGED blobs
       \/ \* the reply, the image of the selected message, the response
          \E download \in MadeCallOutcomes(blob_service_client[p] /\ images # <<>>) :
          \E upload \in MadeCallOutcomes(blob_service_client[p] /\ images # <<>>
                                            /\ download = "ok") :
             LET img == ChatImage(blob_service_client[p], images, download, upload, blobs)
             IN /\ faults + img.errors <= MaxFaults
                /\ faults' = faults + img.errors
                /\ blobs' = img.store
                /\ Update(p, m, [loc[p] EXCEPT !.image = img.outcome],
                          [ok EXCEPT !.image_url = img.url], c \o img.calls, "done")
    /\ UNCHANGED <<blob_service_client, env, retry_call, image_call>>
    /\ UNCHANGED <<now, agents, agent_seq, threads, requests, req, client>>


\* ---------------------------------------------------- requests arrive
\* A handler is entered: the event loop runs one handler at a time, and
\* the handlers never await, so the process must be idle.
Enter(p, request, cl) ==
    /\ pc[p] = "idle"
    /\ requests < MaxRequests
    /\ requests' = requests + 1
    /\ req' = [req EXCEPT ![p] = [request EXCEPT !.turn = requests + 1]]
    /\ client' = [client EXCEPT ![p] = cl]
    /\ UNCHANGED <<retry_call, image_call>>
    /\ UNCHANGED <<now, faults>>

\* The handler goes on to agent_manager.get_or_create_agent().
Begin(p, request, m, cl, blob) ==
    /\ Enter(p, request, cl)
    /\ Update(p, m, NewLocals, NoResponse, <<>>, "ensure")
    /\ blob_service_client' = [blob_service_client EXCEPT ![p] = blob]
    /\ UNCHANGED <<agents, agent_seq, threads, blobs>>

\* The handler answers at once, without a remote call.
Respond(p, request, m, response) ==
    /\ Enter(p, request, NewClient)
    /\ Update(p, m, NewLocals, response, <<>>, "done")
    /\ UNCHANGED <<blob_service_client, env>>
    /\ UNCHANGED <<agents, agent_seq, threads, blobs>>

\* "raise HTTPException(status_code=...)" before the try block of a handler.
Refuse(p, request, status) ==
    Respond(p, request, agent_manager[p], [NoResponse EXCEPT !.status = status])

\* Mutant of Configured: the handlers do not test agent_manager.
Configured_Always(e) == TRUE

\* "agent_manager = AgentManager(project_client) if project_client else None"
\* and the handlers' "if not agent_manager".  While there is no manager,
\* agent_manager[p] keeps the fields of a new one, which nothing reads.
Configured(e) == e.project_client

\* "missing_vars = [k for k, v in REQUIRED_ENV_VARS.items() if not v]"
MissingVars(settings) == ~settings.project_endpoint \/ ~settings.storage_account

\* The process (re)starts under these settings: initialize_azure_clients(),
\* AgentManager(project_client), then startup_event: "if agent_manager and
\* not missing_vars: agent_manager.get_or_create_agent()".
StartProcess(p, settings, project_ok, blob_ok) ==
    LET clients == ClientsAfterInit(settings, project_ok, blob_ok)
        e == Environment(settings, clients)
        request == [NoRequest EXCEPT !.kind = "startup"]
    IN /\ env' = [env EXCEPT ![p] = e]
       /\ IF Configured(e) /\ ~MissingVars(settings)
          THEN Begin(p, request, NewAgentManager, NewClient, clients.blob_service_client)
          ELSE /\ pc[p] = "idle"
               /\ requests < MaxRequests
               /\ requests' = requests + 1
               /\ req' = [req EXCEPT ![p] = NoRequest]
               /\ client' = [client EXCEPT ![p] = NewClient]
               /\ UNCHANGED <<now, faults, retry_call, image_call>>
               /\ Update(p, NewAgentManager, NewLocals, NoResponse, <<>>, "idle")
               /\ blob_service_client' =
                     [blob_service_client EXCEPT ![p] = clients.blob_service_client]
               /\ UNCHANGED <<agents, agent_seq, threads, blobs>>

\* The configured service (re)starts and its project client connects; the
\* storage is reached or not.
Startup(p) ==
    \E blob \in BOOLEAN : StartProcess(p, DefaultSettings, TRUE, blob)

\* POST /start_chat
StartChat(p) ==
    LET request == [NoRequest EXCEPT !.kind = "start_chat"] IN
    IF Configured(env[p])
    THEN /\ Begin(p, request, agent_manager[p], NewClient, blob_service_client[p])
         /\ UNCHANGED env
    ELSE Refuse(p, request, 503)

\* POST /chat with a thread id issued by start_chat or never issued: a user
\* turn (the first send of BackendClient.send_message, or of an API caller).
Chat(p) ==
    \E tid \in {InvalidThreadId} \cup (1..Len(threads)) :
        LET request == [NoRequest EXCEPT !.kind = "chat", !.thread_id = tid] IN
        IF Configured(env[p])
        THEN /\ Begin(p, request, agent_manager[p], NewClient, blob_service_client[p])
             /\ UNCHANGED env
        ELSE Refuse(p, request, 503)

\* POST /reset_agent
ResetAgent(p) ==
    LET request == [NoRequest EXCEPT !.kind = "reset_agent"] IN
    IF Configured(env[p])
    THEN Respond(p, request, reset_agent(agent_manager[p]),
                 [NoResponse EXCEPT !.status = 200, !.body = [status |-> "reset"]])
    ELSE Refuse(p, request, 503)

\* "if not IS_LOCAL and not DEBUG_MODE"
Production(settings) == ~settings.is_local /\ ~settings.debug_mode

\* DELETE /cleanup_agent: refused with 403 in production mode and with 503
\* without a manager; else agents.delete of the cached id and reset_agent(),
\* reset_agent() alone when the deletion raises (the platform fails, or does
\* not know the id), and nothing without a cached id.
CleanupAgent(p) ==
    LET request == [NoRequest EXCEPT !.kind = "cleanup_agent"]
        m == agent_manager[p]
        answer(status) == [NoResponse EXCEPT !.status = 200, !.body = [status |-> status]]
        known == \E a \in agents : a.id = m.agent_id
    IN IF Production(env[p].settings) THEN Refuse(p, request, 403)
       ELSE IF ~Configured(env[p]) THEN Refuse(p, request, 503)
       ELSE IF m.agent_id = NoAgent
       THEN Respond(p, request, m, answer("no_action"))
       ELSE /\ pc[p] = "idle"
            /\ requests < MaxRequests
            /\ requests' = requests + 1
            /\ req' = [req EXCEPT ![p] = [request EXCEPT !.turn = requests + 1]]
            /\ client' = [client EXCEPT ![p] = NewClient]
            /\ UNCHANGED <<blob_service_client, env, retry_call, image_call>>
            /\ UNCHANGED <<now, agent_seq, threads, blobs>>
            /\ \/ /\ known
                  /\ agents' = {a \in agents : a.id # m.agent_id}
                  /\ Update(p, reset_agent(m), NewLocals, answer("deleted"),
                            <<"agents.delete">>, "done")
                  /\ UNCHANGED faults
               \/ /\ known
                  /\ faults < MaxFaults
                  /\ faults' = faults + 1
                  /\ Update(p, reset_agent(m), NewLocals, answer("reset"),
                            <<"agents.delete">>, "done")
                  /\ UNCHANGED agents
               \/ /\ ~known
                  /\ Update(p, reset_agent(m), NewLocals, answer("reset"),
                            <<"agents.delete">>, "done")
                  /\ UNCHANGED <<agents, faults>>

\* health_check: the configuration dictionary of the response.
Configuration(e) ==
    [project_endpoint_set |-> e.settings.project_endpoint,
     storage_account_set |-> e.settings.storage_account,
     model_deployment_set |-> e.settings.model_deployment,
     container_name_set |-> TRUE,
     credentials_configured |-> e.settings.credential,
     clients_initialized |-> e.clients_initialized]

\* all(configuration.values())
AllValues(configuration) == \A k \in DOMAIN configuration : configuration[k]

\* Mutant of HealthStatus: the configuration is left out.
HealthStatus_NoConfiguration(agent_ready, storage_ready, configuration) ==
    IF agent_ready /\ storage_ready THEN "healthy" ELSE "degraded"

\* health_check: "all_ready = agent_ready and storage_ready and
\* all(configuration.values())", "healthy" if all_ready else "degraded".
HealthStatus(agent_ready, storage_ready, configuration) ==
    IF agent_ready /\ storage_ready /\ AllValues(configuration)
    THEN "healthy" ELSE "degraded"

\* GET /health: with a manager the agent probe get_or_create_agent(), whose
\* exception is caught and logged; without one the storage probe at once.
Health(p) ==
    LET request == [NoRequest EXCEPT !.kind = "health"] IN
    IF Configured(env[p])
    THEN /\ Begin(p, request, agent_manager[p], NewClient, blob_service_client[p])
         /\ UNCHANGED env
    ELSE /\ Enter(p, request, NewClient)
         /\ Update(p, agent_manager[p], NewLocals, NoResponse, <<>>, "health_storage")
         /\ UNCHANGED <<blob_service_client, env, agents, agent_seq, threads, blobs>>

\* health_check: "agent_ready = bool(agent_id)" of the id the probe returned.
AgentReady(e, agent_id) == Configured(e) /\ agent_id # NoAgent

\* health_check: the storage probe container_client.get_container_properties(),
\* whose exception is caught and logged, and the response.
HealthStorage(p) ==
    /\ pc[p] = "health_storage"
    /\ LET e == env[p]
           agent_ready == AgentReady(e, loc[p].agent_id)
           probe == Append(calls[p], "get_container_properties")
           answer(storage_ready) ==
               [NoResponse EXCEPT
                  !.status = 200,
                  !.body = [status |-> HealthStatus(agent_ready, storage_ready,
                                                    Configuration(e)),
                            agent_ready |-> agent_ready,
                            storage_ready |-> storage_ready,
                            configuration |-> Configuration(e)]]
       IN \/ /\ ~blob_service_client[p]
             /\ Update(p, agent_manager[p], loc[p], answer(FALSE), calls[p], "done")
             /\ UNCHANGED faults
          \/ /\ blob_service_client[p]
             /\ Update(p, agent_manager[p], loc[p], answer(TRUE), probe, "done")
             /\ UNCHANGED faults
          \/ /\ blob_service_client[p]
             /\ faults < MaxFaults
             /\ faults' = faults + 1
             /\ Update(p, agent_manager[p], loc[p], answer(FALSE), probe, "done")
    /\ UNCHANGED <<blob_service_client, env, retry_call, image_call>>
    /\ UNCHANGED <<now, agents, agent_seq, threads, blobs, requests, req, client>>

\* ------------------------------------------------- the caller of /chat
\* Mutant of FrontendRetries: send_message never sends again.
FrontendRetries_Never(response, retry_count) == FALSE

\* BackendClient.send_message, HTTP 500: "elif 'agent' in error_detail.lower()
\* and retry_count < 2": sleep and send the same message again.
FrontendRetries(response, retry_count) ==
    /\ response.status = 500
    /\ ~StrContains(NEEDLE_THREAD, StrLower(response.detail))
    /\ StrContains(NEEDLE_AGENT, StrLower(response.detail))
    /\ retry_count < FrontendMaxRetries

\* The caller receives the response and the turn ends: an API caller, or the
\* chat UI when it does not send again.
Receive(p) ==
    /\ pc[p] = "done"
    /\ req' = [req EXCEPT ![p] = NoRequest]
    /\ client' = [client EXCEPT ![p] = NewClient]
    /\ Update(p, agent_manager[p], NewLocals, NoResponse, <<>>, "idle")
    /\ UNCHANGED <<blob_service_client, env, retry_call, image_call>>
    /\ UNCHANGED <<now, agents, agent_seq, threads, blobs, faults, requests>>

\* BackendClient.send_message receives a 500 response of /chat and sends the
\* message of the turn again: time.sleep(2), send_message(..., retry_count + 1).
FrontendRetry(p) ==
    /\ pc[p] = "done"
    /\ req[p].kind = "chat"
    /\ FrontendRetries(resp[p], client[p].retry_count)
    /\ requests < MaxRequests
    /\ requests' = requests + 1
    /\ now' = now + FrontendRetrySleep
    /\ client' = [client EXCEPT ![p].retry_count = @ + 1]
    /\ Update(p, agent_manager[p], NewLocals, NoResponse, <<>>, "ensure")
    /\ UNCHANGED <<blob_service_client, env, retry_call, image_call>>
    /\ req' = [req EXCEPT ![p].turn = requests + 1]
    /\ UNCHANGED <<agents, agent_seq, threads, blobs, faults>>

\* ------------------------------------------------------------- clock
TickSteps == {CheckInterval \div 2, CheckInterval}

\* Time passes.  The program reads the clock only on entry to
\* get_or_create_agent, so the time that passed since the last reading is
\* added right before a reading.
Tick ==
    /\ \E p \in Procs : pc[p] = "ensure"
    /\ \E d \in TickSteps :
          /\ now + d <= MaxTime
          /\ now' = now + d
    /\ UNCHANGED <<blob_service_client, env, retry_call, image_call>>
    /\ UNCHANGED <<agents, agent_seq, threads, blobs, faults, requests,
                   agent_manager, pc, req, loc, calls, resp, client>>

\* ------------------------------------------------------ specification
\* One service process and its callers.
Server == "p1"

Next ==
    \/ Startup(Server)
    \/ StartChat(Server)
    \/ Chat(Server)
    \/ ResetAgent(Server)
    \/ GetOrCreateAgent(Server)
    \/ CreateAgent(Server)
    \/ CreateThread(Server)
    \/ ChatCreateMessage(Server)
    \/ ChatRun(Server)
    \/ ChatListMessages(Server)
    \/ Receive(Server)
    \/ FrontendRetry(Server)
    \/ Tick

Spec == Init /\ [][Next]_vars

\* Several service processes over one agent platform, starting up and
\* serving /start_chat.
NextCluster ==
    \/ \E p \in Procs :
          \/ Startup(p)
          \/ StartChat(p)
          \/ GetOrCreateAgent(p)
          \/ CreateAgent(p)
          \/ CreateThread(p)
          \/ Receive(p)
    \/ Tick

SpecCluster == Init /\ [][NextCluster]_vars

\* ------------------------------------- an agent deleted behind the cache
\* The agents of the configured name are deleted on the platform while the
\* service holds their id: agents.delete by DELETE /cleanup_agent of another
\* instance of the service, which resets only that instance's manager.
PlatformDeletesAgent ==
    /\ faults < MaxFaults
    /\ AgentsNamed(agents, AGENT_NAME) # {}
    /\ agents' = agents \ AgentsNamed(agents, AGENT_NAME)
    /\ faults' = faults + 1
    /\ UNCHANGED <<blob_service_client, env, retry_call, image_call>>
    /\ UNCHANGED <<now, agent_seq, threads, blobs, requests,
                   agent_manager, pc, req, loc, calls, resp, client>>

\* What the platform reports in run.last_error for an agent id it does not know.
StaleLastErrors == {LastErrAgentNotFound, LastErrNotFound}

\* The platform is healthy but for the deletion: a run for an agent the
\* platform knows completes, and a run for an id it does not know fails
\* with a not-found last_error.
HealthyRun(p) ==
    pc[p] = "run" =>
        IF KnownAgent(loc[p].agent_id)
        THEN loc'[p].run.status = "completed"
        ELSE /\ loc'[p].run.status = "failed"
             /\ loc'[p].run.last_error \in StaleLastErrors

\* A step of the handler p runs on the healthy platform, where no call
\* raises.  The handler contains no wait but the remote calls, which
\* return, so a handler that can step does.
HandlerStep(p) ==
    /\ faults' = faults
    /\ \/ GetOrCreateAgent(p)
       \/ CreateAgent(p)
       \/ CreateThread(p)
       \/ ChatCreateMessage(p)
       \/ ChatRun(p)
       \/ ChatListMessages(p)
    /\ HealthyRun(p)

\* BackendClient.send_message returns to the chat UI only when it does not
\* send again.
FrontendReceive(p) ==
    /\ ~(req[p].kind = "chat" /\ FrontendRetries(resp[p], client[p].retry_count))
    /\ Receive(p)

\* One service process behind the chat UI, on a platform that is healthy
\* but for one deletion of the agent.
NextRecover ==
    \/ StartChat(Server)
    \/ Chat(Server)
    \/ HandlerStep(Server)
    \/ FrontendReceive(Server)
    \/ FrontendRetry(Server)
    \/ faults = 0 /\ PlatformDeletesAgent

\* Handlers run to their end, and send_message, once it decided to send
\* again, sleeps and sends.
SpecRecover ==
    /\ Init
    /\ [][NextRecover]_vars
    /\ WF_vars(HandlerStep(Server))
    /\ WF_vars(FrontendRetry(Server))

\* The same while time passes between the requests.
NextStale == NextRecover \/ Tick

SpecStale == Init /\ [][NextStale]_vars

\* --------------------------------- deployments and the admin endpoints
\* Deployments of the service: the local default, debug and production
\* modes, and settings that are missing or empty.
Environments ==
    { DefaultSettings,
      [DefaultSettings EXCEPT !.debug_mode = TRUE],
      [DefaultSettings EXCEPT !.is_local = FALSE],
      [DefaultSettings EXCEPT !.is_local = FALSE, !.debug_mode = TRUE],
      [DefaultSettings EXCEPT !.project_endpoint = FALSE],
      [DefaultSettings EXCEPT !.is_local = FALSE, !.credential = FALSE],
      [DefaultSettings EXCEPT !.storage_account = FALSE],
      [DefaultSettings EXCEPT !.model_deployment = FALSE] }

\* The service starts in one of the deployments, before any request.
StartupAny(p) ==
    /\ requests = 0
    /\ \E settings \in Environments, project_ok \in BOOLEAN, blob_ok \in BOOLEAN :
          StartProcess(p, settings, project_ok, blob_ok)

\* /chat arrives at a service without a manager.
ChatUnconfigured(p) == ~Configured(env[p]) /\ Chat(p)

\* One service process in any deployment: /start_chat, /health and the
\* admin endpoints.
NextAdmin ==
    \/ StartupAny(Server)
    \/ StartChat(Server)
    \/ ChatUnconfigured(Server)
    \/ ResetAgent(Server)
    \/ CleanupAgent(Server)
    \/ Health(Server)
    \/ HealthStorage(Server)
    \/ GetOrCreateAgent(Server)
    \/ CreateAgent(Server)
    \/ CreateThread(Server)
    \/ Receive(Server)

SpecAdmin == Init /\ [][NextAdmin]_vars

\* ------------------------------------------- process_image, called alone
\* An image content part without a file id.
MalformedImage == [type |-> "image_file"]
\* The image_content arguments of the calls.
ImageInputs == {ImagePart(f) : f \in FileIds \cup {BlobName(FileId1)}} \cup {MalformedImage}
\* What successive attempts of the upload would meet: raise k times, then
\* return, or raise every time.
UploadScripts ==
    { <<"ok">>, <<"error", "ok">>, <<"error", "error", "ok">>,
      <<"error", "error", "error">> }

\* What agents.files.download may return for the file of an image part: its
\* bytes, a dict holding them under 'content', a dict holding a str there,
\* a dict without that key, a bytearray, an iterator of chunks.
FileContents(image_content) ==
    LET data == ImageData(image_content.file_id) IN
    { Bytes(data),
      Dict([content |-> Bytes(data)]),
      Dict([content |-> Text(data)]),
      Dict([data |-> Bytes(data)]),
      ByteArray(data),
      Iterator(data) }

\* initialize_azure_clients(), when the module is loaded and before any
\* call: the blob client is created, or left None.
InitializeAzureClients ==
    /\ image_call.state = "none"
    /\ requests = 0
    /\ \E blob \in BOOLEAN :
          /\ blob # blob_service_client[Server]
          /\ blob_service_client' = [blob_service_client EXCEPT ![Server] = blob]
    /\ UNCHANGED <<now, agents, agent_seq, threads, blobs, faults, requests,
                   agent_manager, pc, req, loc, calls, resp, client,
                   env, retry_call, image_call>>

\* process_image(image_content) is called.
CallProcessImage ==
    /\ image_call.state # "called"
    /\ requests < MaxImageCalls
    /\ requests' = requests + 1
    /\ \E image_content \in ImageInputs, download \in CallOutcomes,
          uploads \in UploadScripts :
       \E file_content \in IF HasFileId(image_content) /\ download = "ok"
                            THEN FileContents(image_content)
                            ELSE {FileContent(image_content)} :
          image_call' = [state |-> "called",
                         image_content |-> image_content,
                         download |-> download,
                         file_content |-> file_content,
                         uploads |-> uploads,
                         existed |-> /\ HasFileId(image_content)
                                     /\ BlobName(image_content.file_id) \in blobs]
    /\ UNCHANGED <<now, agents, agent_seq, threads, blobs, faults,
                   agent_manager, pc, req, loc, calls, resp, client,
                   blob_service_client, env, retry_call>>

\* process_image runs and returns (or is left by an exception).
ReturnProcessImage ==
    /\ image_call.state = "called"
    /\ LET r == ProcessImage(blob_service_client[Server], image_call.image_content,
                             image_call.download, image_call.file_content,
                             Head(image_call.uploads), blobs)
       IN /\ blobs' = r.store
          /\ image_call' = [image_call EXCEPT !.state = "returned"] @@ [result |-> r]
    /\ UNCHANGED <<now, agents, agent_seq, threads, faults, requests,
                   agent_manager, pc, req, loc, calls, resp, client,
                   blob_service_client, env, retry_call>>

NextImage ==
    \/ InitializeAzureClients
    \/ CallProcessImage
    \/ ReturnProcessImage

SpecImage == Init /\ [][NextImage]_vars

\* ------------------------------------------------ retry, called alone
\* Exception classes the operation raises, and their base classes.
ErrorClasses == {"AzureError", "ClientAuthenticationError", "ValueError"}
Bases(cls) ==
    CASE cls = "ClientAuthenticationError" ->
            {"ClientAuthenticationError", "AzureError", "Exception"}
      [] cls = "AzureError" -> {"AzureError", "Exception"}
      [] OTHER -> {cls, "Exception"}

\* "@retry(max_attempts=3, delay=2, exceptions=(AzureError, Exception))"
RetryExceptions == {"AzureError", "Exception"}
\* "def retry(..., exceptions=(Exception,))", and narrower tuples
ExceptionTuples == {{"Exception"}, RetryExceptions, {"AzureError"}}

\* "except exceptions as e": the clause catches an exception of class cls
Catches(exceptions, cls) == Bases(cls) \cap exceptions # {}

\* Mutant of LastAttempt: the wrapper never takes the raise of the except clause.
LastAttempt_Never(attempt, max_attempts) == FALSE

\* retry.wrapper: "if attempt == max_attempts: ... raise"
LastAttempt(attempt, max_attempts) == attempt = max_attempts

\* Mutant of NextDelay: no backoff.
NextDelay_Constant(current_delay, backoff) == current_delay

\* retry.wrapper: "current_delay *= backoff"
NextDelay(current_delay, backoff) == current_delay * backoff

\* What the successive invocations of the operation do: return, or raise
\* an exception of some class.
Scripts == [1..MaxAttemptsArg -> {"ok"} \cup ErrorClasses]
\* What the operation returns.
Value == "value"

\* A function decorated with retry(max_attempts, delay, backoff, exceptions)
\* is called: "attempt = 1, current_delay = delay, last_exception = None".
CallDecorated ==
    /\ retry_call.state = "none"
    /\ \E max_attempts \in 1..MaxAttemptsArg, delay \in {1, RetryDelay},
          backoff \in {1, RetryBackoff, 3}, exceptions \in ExceptionTuples,
          script \in Scripts :
          retry_call' = [state |-> "running",
                         max_attempts |-> max_attempts, delay |-> delay,
                         backoff |-> backoff, exceptions |-> exceptions,
                         script |-> script,
                         attempt |-> 1, current_delay |-> delay,
                         last_exception |-> NoError,
                         invocations |-> 0, slept |-> <<>>,
                         value |-> "none", raised |-> NoError]
    /\ UNCHANGED <<now, agents, agent_seq, threads, blobs, faults, requests,
                   agent_manager, pc, req, loc, calls, resp, client,
                   blob_service_client, env, image_call>>

\* One turn of "while attempt <= max_attempts": the operation is invoked;
\* it returns, or raises and the except clause raises again or sleeps.
WrapperAttempt ==
    /\ retry_call.state = "running"
    /\ LET f == retry_call
           outcome == f.script[f.invocations + 1]
           g == [f EXCEPT !.invocations = @ + 1]
       IN retry_call' =
            IF f.attempt > f.max_attempts
            THEN [f EXCEPT !.state = "raised", !.raised = f.last_exception]
            ELSE IF outcome = "ok"
            THEN [g EXCEPT !.state = "returned", !.value = Value]
            ELSE IF ~Catches(f.exceptions, outcome)
            THEN [g EXCEPT !.state = "raised", !.raised = outcome]
            ELSE IF LastAttempt(f.attempt, f.max_attempts)
            THEN [g EXCEPT !.state = "raised", !.raised = outcome,
                           !.last_exception = outcome]
            ELSE [g EXCEPT !.last_exception = outcome,
                           !.slept = Append(@, f.current_delay),
                           !.current_delay = NextDelay(@, f.backoff),
                           !.attempt = @ + 1]
    /\ UNCHANGED <<now, agents, agent_seq, threads, blobs, faults, requests,
                   agent_manager, pc, req, loc, calls, resp, client,
                   blob_service_client, env, image_call>>

NextRetry ==
    \/ CallDecorated
    \/ WrapperAttempt

SpecRetry == Init /\ [][NextRetry]_vars


\* ==================================================================
\* Claims
\* ==================================================================
Last(s) == s[Len(s)]

NamedAgents == {a \in agents : a.name = AGENT_NAME}

\* The cached agent id exists and was validated less than 300 s ago.
Fresh(p) ==
    /\ agent_manager[p].agent_id # NoAgent
    /\ now - agent_manager[p].last_check_time < 300

\* Process p takes a step of get_or_create_agent's entry.
EnsureStep(p) ==
    /\ pc[p] = "ensure"
    /\ (pc'[p] # "ensure" \/ calls'[p] # calls[p])

\* get_or_create_agent returns an id to the handler of p in this step.
EnsureReturns(p) ==
    /\ pc[p] \in {"ensure", "create"}
    /\ pc'[p] \notin {"ensure", "create"}
    /\ loc'[p].agent_id # NoAgent

\* A remote call of get_or_create_agent of p fails in this step.
AgentCallFailed(p) ==
    /\ pc[p] \in {"ensure", "create"}
    /\ calls'[p] # calls[p]
    /\ faults' = faults + 1

\* With an empty cache the entry of get_or_create_agent lists the agents.
LooksUpWhenEmpty(p) ==
    EnsureStep(p) /\ agent_manager[p].agent_id = NoAgent
        => calls'[p] = Append(calls[p], "agents.list")

\* C1: a call of get_or_create_agent made while a cached id exists that was
\* validated less than 300 s ago returns the cached id, makes no remote call
\* (no list, no create), and leaves the cache and the agents as they are.
C1_CacheHitNoRemoteCall ==
    [][\A p \in Procs :
          EnsureStep(p) /\ Fresh(p) =>
             /\ calls'[p] = calls[p]
             /\ loc'[p].agent_id = agent_manager[p].agent_id
             /\ agent_manager'[p] = agent_manager[p]
             /\ agents' = agents
             /\ pc'[p] \notin {"ensure", "create"}]_vars

\* C1 witness: a handler got the cached id without a remote call, 150 s or
\* more after the id was validated.
C1_Witness ==
    \E p \in Procs :
        /\ pc[p] \in {"create_thread", "create_message"}
        /\ calls[p] = <<>>
        /\ loc[p].agent_id # NoAgent
        /\ loc[p].agent_id = agent_manager[p].agent_id
        /\ now - agent_manager[p].last_check_time >= 150

\* C2: concurrent callers of get_or_create_agent create at most one agent
\* with the configured name (no two of them reach the create step).
C2_AtMostOneAgentCreated ==
    /\ Cardinality(NamedAgents) <= 1
    /\ Cardinality({p \in Procs : pc[p] = "create"}) <= 1

\* C3: in a sequential series of calls (one process, restarts and resets
\* included) a create call is issued only when no agent has the configured
\* name, a call made while one exists returns the id of that agent and
\* creates nothing, and at most one agent ever has the name.
C3_LookupBeforeCreate ==
    [][\A p \in Procs :
          /\ calls'[p] = Append(calls[p], "agents.create_agent")
                => NamedAgents = {}
          /\ (EnsureReturns(p) /\ NamedAgents # {})
                => /\ loc'[p].agent_id \in {a.id : a \in NamedAgents}
                   /\ agents' = agents
          /\ Cardinality(NamedAgents') <= 1]_vars

\* C3 witness: after a restart, startup_event got the id of the agent that an
\* earlier incarnation created, from the listing.
C3_Witness ==
    \E p \in Procs :
        /\ req[p].kind = "startup"
        /\ pc[p] = "idle"
        /\ calls[p] = <<"agents.list">>
        /\ loc[p].agent_id \in {a.id : a \in NamedAgents}

\* C4: a failing list or create call empties the cached id; below the third
\* attempt the call is made again, at the third attempt the error reaches the
\* caller (a 500 response for /chat and /start_chat); and a call made with an
\* empty cache lists the agents.
C4_FailureClearsCache ==
    [][\A p \in Procs :
          /\ AgentCallFailed(p) =>
                /\ agent_manager'[p].agent_id = NoAgent
                /\ IF loc[p].attempt < 3
                   THEN /\ pc'[p] = "ensure"
                        /\ loc'[p].attempt = loc[p].attempt + 1
                   ELSE /\ pc'[p] \notin {"ensure", "create"}
                        /\ loc'[p].error \in TransientErrors
                        /\ loc'[p].agent_id = NoAgent
                        /\ req[p].kind \in {"chat", "start_chat"}
                              => pc'[p] = "done" /\ resp'[p].status = 500
          /\ LooksUpWhenEmpty(p)]_vars

\* C4 witness: three attempts failed and the handler answered 500.
C4_Witness ==
    \E p \in Procs :
        /\ pc[p] = "done"
        /\ resp[p].status = 500
        /\ Len(calls[p]) = 3
        /\ \A i \in 1..3 : calls[p][i] \in {"agents.list", "agents.create_agent"}
        /\ agent_manager[p].agent_id = NoAgent

\* The text of the error, in lower case, contains "not found".
IndicatesNotFound(text) ==
    \E i \in 1..Len(text) :
        /\ i + 8 <= Len(text)
        /\ StrLower(SubSeq(text, i, i + 8)) = <<"n","o","t"," ","f","o","u","n","d">>

\* The run of p's /chat is returned with status failed in this step.
RunFailedStep(p) ==
    /\ pc[p] = "run"
    /\ loc'[p].run.status = "failed"

\* C5: when the run ends failed, /chat answers 500; if the error text contains
\* "not found" (in any case) the cached agent id is empty when the response
\* is returned, otherwise the AgentManager is unchanged; and a call of
\* get_or_create_agent with an empty cache lists the agents, whatever the time.
C5_NotFoundInvalidatesCache ==
    [][\A p \in Procs :
          /\ RunFailedStep(p) =>
                /\ pc'[p] = "done"
                /\ resp'[p].status = 500
                /\ IF IndicatesNotFound(loc'[p].run.last_error)
                   THEN agent_manager'[p].agent_id = NoAgent
                   ELSE agent_manager'[p] = agent_manager[p]
          /\ LooksUpWhenEmpty(p)]_vars

\* C5 witness: a failed run with "Not Found" in its error, the cache emptied.
C5_Witness ==
    \E p \in Procs :
        /\ pc[p] = "done"
        /\ loc[p].run.status = "failed"
        /\ loc[p].run.last_error = LastErrNotFound
        /\ agent_manager[p].agent_id = NoAgent
        /\ resp[p].status = 500

\* C6, for a failure that does not indicate a stale agent: once /chat
\* answered that its run failed, no further request of the turn is sent
\* unless the user sends again (the failed run is not run again).
C6_FailedRunNotRetried ==
    [][\A p \in Procs :
          (/\ pc[p] = "done"
           /\ loc[p].run.status = "failed"
           /\ ~IndicatesNotFound(loc[p].run.last_error))
             => pc'[p] # "ensure"]_vars

\* The request of p is a /chat on a thread id the platform does not know.
UnknownThreadChat(p) ==
    /\ req[p].kind = "chat"
    /\ req[p].thread_id \notin 1..Len(threads)

\* C7 as stated: /chat on an unknown thread id answers 500 with the
\* invalid/expired thread detail.
C7_AlwaysThreadDetail ==
    \A p \in Procs :
        pc[p] = "done" /\ UnknownThreadChat(p) =>
            /\ resp[p].status = 500
            /\ resp[p].detail = THREAD_DETAIL

\* C7 amended: /chat on an unknown thread id answers 500, never a reply; the
\* detail is the invalid/expired thread text exactly when the error caught is
\* the platform's rejection of the thread (which every such request meets
\* once get_or_create_agent returned and the append reached the platform);
\* otherwise it is the agent-unavailable text or the text of the error.
C7_InvalidThread ==
    \A p \in Procs :
        pc[p] = "done" /\ UnknownThreadChat(p) =>
            /\ resp[p].status = 500
            /\ resp[p].reply = <<>>
            /\ loc[p].run.status = "none"
            /\ (loc[p].error = ErrThreadNotFound) <=> (resp[p].detail = THREAD_DETAIL)
            /\ loc[p].error = ErrThreadNotFound =>
                  loc[p].agent_id # NoAgent /\ Last(calls[p]) = "messages.create"
            /\ loc[p].error # ErrThreadNotFound =>
                  resp[p].detail \in {AGENT_DETAIL, loc[p].error}

\* C7 witness: an unknown thread id answered with the thread detail.
C7_Witness ==
    \E p \in Procs :
        /\ pc[p] = "done"
        /\ UnknownThreadChat(p)
        /\ resp[p].status = 500
        /\ resp[p].detail = THREAD_DETAIL

\* C8: /chat answers 200 only when its run was returned with status completed.
C8_ReplyOnlyWhenCompleted ==
    \A p \in Procs :
        pc[p] = "done" /\ req[p].kind = "chat" /\ resp[p].status = 200 =>
            loc[p].run.status = "completed"

\* The newest assistant message of a thread (its messages oldest first), 0 if none.
NewestAssistant(thread) ==
    IF \E i \in 1..Len(thread) : thread[i].role = "assistant"
    THEN CHOOSE i \in 1..Len(thread) :
            /\ thread[i].role = "assistant"
            /\ \A j \in (i + 1)..Len(thread) : thread[j].role # "assistant"
    ELSE 0

\* The texts of the text parts of a content, in order.
TextsOf(content) ==
    IF content.kind = "str" THEN <<content.value>>
    ELSE LET texts == SelectSeq(content.parts,
                                LAMBDA part : part.type \in {"text", "text_plain"})
         IN [i \in 1..Len(texts) |-> texts[i].value]

RECURSIVE Flatten(_)
Flatten(ss) == IF ss = <<>> THEN <<>> ELSE Head(ss) \o Flatten(Tail(ss))

\* The concatenation of the text parts of the newest assistant message.
NewestAssistantText(thread) ==
    Flatten(TextsOf(thread[NewestAssistant(thread)].content))

\* /chat of p answers 200 in this step, from the listing of the thread.
RepliesStep(p) ==
    /\ pc[p] = "list_messages"
    /\ pc'[p] = "done"
    /\ resp'[p].status = 200

\* C9 as stated: after a completed run the reply is the concatenation of the
\* text parts of the newest assistant message of the thread.
C9_ReplyIsNewestText ==
    [][\A p \in Procs :
          (/\ RepliesStep(p)
           /\ loc[p].run.status = "completed"
           /\ NewestAssistant(threads[req[p].thread_id]) # 0) =>
             resp'[p].reply = NewestAssistantText(threads[req[p].thread_id])]_vars

\* C9 amended: after a completed run the reply is the concatenation of the
\* text parts of the newest assistant message when it is not empty, and the
\* fixed fallback string when it is empty (a message with no text part).
C9_ReplyIsNewestTextOrFallback ==
    [][\A p \in Procs :
          (/\ RepliesStep(p)
           /\ loc[p].run.status = "completed"
           /\ NewestAssistant(threads[req[p].thread_id]) # 0) =>
             resp'[p].reply =
                IF NewestAssistantText(threads[req[p].thread_id]) = <<>>
                THEN FALLBACK_REPLY
                ELSE NewestAssistantText(threads[req[p].thread_id])]_vars

\* C9 witness: a reply taken from the second assistant message of a thread
\* whose first assistant message has another text.
C9_Witness ==
    \E p \in Procs :
        /\ pc[p] = "done"
        /\ req[p].kind = "chat"
        /\ resp[p].status = 200
        /\ loc[p].run.status = "completed"
        /\ LET thread == threads[req[p].thread_id] IN
           /\ Len(thread) = 4
           /\ thread[2].role = "assistant"
           /\ thread[4].role = "assistant"
           /\ resp[p].reply = Flatten(TextsOf(thread[4].content))
           /\ resp[p].reply # Flatten(TextsOf(thread[2].content))
           /\ resp[p].reply # FALLBACK_REPLY

\* C10: every 200 response of /chat has a non-empty reply, and the reply is
\* the fixed fallback string when the listing has no assistant message.
C10_ReplyNeverEmpty ==
    /\ [](\A p \in Procs :
             pc[p] = "done" /\ req[p].kind = "chat" /\ resp[p].status = 200 =>
                resp[p].reply # <<>>)
    /\ [][\A p \in Procs :
             RepliesStep(p) /\ NewestAssistant(threads[req[p].thread_id]) = 0 =>
                resp'[p].reply = FALLBACK_REPLY]_vars

\* C10 witness: a completed run left no assistant message and the reply is
\* the fallback string.
C10_Witness ==
    \E p \in Procs :
        /\ pc[p] = "done"
        /\ req[p].kind = "chat"
        /\ resp[p].status = 200
        /\ loc[p].run.status = "completed"
        /\ NewestAssistant(threads[req[p].thread_id]) = 0
        /\ resp[p].reply = FALLBACK_REPLY

\* The image parts of a content, in order.
ImagePartsOf(content) ==
    IF content.kind = "str" THEN <<>>
    ELSE SelectSeq(content.parts, LAMBDA part : part.type = "image_file")

\* The image parts of the newest assistant message of the thread of p's request.
NewestImages(p) ==
    LET thread == threads[req[p].thread_id] IN
    IF NewestAssistant(thread) = 0 THEN <<>>
    ELSE ImagePartsOf(thread[NewestAssistant(thread)].content)

\* The text /chat owes for the thread of p's request.
NewestTextOrFallback(p) ==
    LET text == NewestAssistantText(threads[req[p].thread_id]) IN
    IF text = <<>> THEN FALLBACK_REPLY ELSE text

\* agents.messages.list of p's /chat raises in this step.
ListFailed(p) ==
    /\ pc[p] = "list_messages"
    /\ calls'[p] = Append(calls[p], "messages.list")
    /\ faults' = faults + 1

\* C11: when the listing succeeded and the selected assistant message has
\* image parts, /chat answers 200 with the text reply whatever happens to the
\* image (stored, an exception in the download or the upload, storage not
\* configured); only the first image part is downloaded and stored; and
\* image_url is absent unless that image was stored.
C11_ImageNeverFailsTurn ==
    [][\A p \in Procs :
          (/\ pc[p] = "list_messages"
           /\ pc'[p] # "list_messages"
           /\ ~ListFailed(p)
           /\ NewestImages(p) # <<>>) =>
             LET first == NewestImages(p)[1]
                 made == SubSeq(calls'[p], Len(calls[p]) + 2, Len(calls'[p]))
             IN /\ pc'[p] = "done"
                /\ resp'[p].status = 200
                /\ resp'[p].reply = NewestTextOrFallback(p)
                /\ loc'[p].image \in {"stored", "error", "not_configured"}
                /\ Len(SelectSeq(made, LAMBDA call : call = "files.download")) <= 1
                /\ IF loc'[p].image = "stored"
                   THEN /\ resp'[p].image_url = BlobUrl(BlobName(first.file_id))
                        /\ blobs' = blobs \cup {BlobName(first.file_id)}
                   ELSE /\ resp'[p].image_url = NoUrl
                        /\ blobs' = blobs]_vars

\* C11 witness: the download or the upload of the image raised, and /chat
\* answered 200 with the text of the message and no image_url.
C11_Witness ==
    \E p \in Procs :
        /\ pc[p] = "done"
        /\ req[p].kind = "chat"
        /\ loc[p].image = "error"
        /\ loc[p].run.status = "completed"
        /\ resp[p].status = 200
        /\ resp[p].reply = <<"b", "a">>
        /\ resp[p].image_url = NoUrl

\* The bytes a value returned by the download holds as bytes or as another
\* bytes-like object, directly or under the key 'content' of a dict;
\* <<>> when it holds none in these ways.
UnderlyingBytes(file_content) ==
    LET inner == IF file_content.type = "dict" /\ "content" \in DOMAIN file_content.items
                 THEN file_content.items.content
                 ELSE file_content
    IN IF inner.type \in {"bytes", "bytearray"} THEN inner.data ELSE <<>>

\* process_image was called with everything in order: a blob client, an
\* image part with a file id, a download that returns bytes or a wrapper
\* of them.
ImageCallSound ==
    /\ blob_service_client[Server]
    /\ HasFileId(image_call.image_content)
    /\ image_call.download = "ok"
    /\ UnderlyingBytes(image_call.file_content) # <<>>

\* C12: process_image is never left by an exception; it returns None when
\* the blob client is missing (without any remote call), when the file id
\* cannot be read, when the download raises and when the upload raises; and
\* it returns a URL only after upload_blob returned, the blob being stored.
C12_ProcessImageNeverRaises ==
    image_call.state = "returned" =>
        LET r == image_call.result IN
        /\ r.raised = NoError
        /\ ~blob_service_client[Server] => r.url = NoUrl /\ r.calls = <<>>
        /\ ~HasFileId(image_call.image_content) => r.url = NoUrl
        /\ image_call.download = "error" => r.url = NoUrl
        /\ Head(image_call.uploads) = "error" => r.url = NoUrl
        /\ r.url # NoUrl =>
              /\ ImageCallSound
              /\ Head(image_call.uploads) = "ok"
              /\ Last(r.calls) = "upload_blob"
              /\ BlobName(image_call.image_content.file_id) \in blobs

\* C12 witness: a call with an image part without file id returned None.
C12_Witness ==
    /\ image_call.state = "returned"
    /\ blob_service_client[Server]
    /\ ~HasFileId(image_call.image_content)
    /\ image_call.result.url = NoUrl
    /\ image_call.result.raised = NoError

\* C13: a call of process_image whose download and upload return gives the
\* URL of the blob named file_id + ".png", whether or not that blob existed
\* (so a second call with the same file id gives the same URL), the store
\* gains that one name at most, and distinct file ids have distinct blob
\* names and URLs.
C13_IdempotentNaming ==
    /\ [][(/\ image_call.state = "called"
            /\ image_call'.state = "returned"
            /\ ImageCallSound
            /\ Head(image_call.uploads) = "ok") =>
              LET blob_name == image_call.image_content.file_id \o <<".","p","n","g">>
              IN /\ image_call'.result.url = <<"i","m","a","g","e","s","/">> \o blob_name
                 /\ blobs' = blobs \cup {blob_name}
                 /\ Cardinality(blobs') = Cardinality(blobs)
                                          + (IF image_call.existed THEN 0 ELSE 1)]_vars
    /\ [](\A a, b \in ImageInputs :
             HasFileId(a) /\ HasFileId(b) /\ a.file_id # b.file_id =>
                /\ BlobName(a.file_id) # BlobName(b.file_id)
                /\ BlobUrl(BlobName(a.file_id)) # BlobUrl(BlobName(b.file_id)))

\* C13 witness: a second call with the same file id returned the URL again,
\* two blobs of other file ids being in the store.
C13_Witness ==
    /\ image_call.state = "returned"
    /\ image_call.existed
    /\ image_call.result.url = BlobUrl(BlobName(image_call.image_content.file_id))
    /\ Cardinality(blobs) = 2

\* C14: when the upload raises fewer times than the attempt budget of the
\* retry decorator and would then return, process_image returns the URL.
C14_UploadRetried ==
    (/\ image_call.state = "returned"
     /\ ImageCallSound
     /\ \E k \in 1..(RetryMaxAttempts - 1) :
           /\ Len(image_call.uploads) = k + 1
           /\ \A i \in 1..k : image_call.uploads[i] = "error"
           /\ image_call.uploads[k + 1] = "ok")
        => image_call.result.url = BlobUrl(BlobName(image_call.image_content.file_id))

RECURSIVE Pow(_, _)
Pow(b, n) == IF n = 0 THEN 1 ELSE b * Pow(b, n - 1)

RECURSIVE SumSeq(_)
SumSeq(q) == IF q = <<>> THEN 0 ELSE Head(q) + SumSeq(Tail(q))

\* The wrapper has returned or raised.
RetryCallOver == retry_call.state \in {"returned", "raised"}

\* The first k invocations raise exceptions the decorator retries.
FailsRetryably(k) ==
    \A i \in 1..k :
        /\ retry_call.script[i] # "ok"
        /\ Bases(retry_call.script[i]) \cap retry_call.exceptions # {}

\* C15: when the operation raises a retryable exception k < max_attempts
\* times and then returns, the wrapper invokes it k + 1 times, returns its
\* value, and sleeps delay * backoff^(i-1) after the i-th failure and at no
\* other time, so the total wait is the sum of these for i = 1..k.
C15_RetrySuccessPath ==
    \A k \in 0..(MaxAttemptsArg - 1) :
        (/\ RetryCallOver
         /\ k < retry_call.max_attempts
         /\ FailsRetryably(k)
         /\ retry_call.script[k + 1] = "ok") =>
            /\ retry_call.state = "returned"
            /\ retry_call.value = Value
            /\ retry_call.raised = NoError
            /\ retry_call.invocations = k + 1
            /\ retry_call.slept =
                  [i \in 1..k |-> retry_call.delay * Pow(retry_call.backoff, i - 1)]
            /\ SumSeq(retry_call.slept) =
                  SumSeq([i \in 1..k |-> retry_call.delay * Pow(retry_call.backoff, i - 1)])

\* C15 witness: two failures, then the value, after waits of 2 and 4 with
\* the arguments of get_or_create_agent's decorator.
C15_Witness ==
    /\ retry_call.state = "returned"
    /\ retry_call.max_attempts = RetryMaxAttempts
    /\ retry_call.delay = RetryDelay
    /\ retry_call.backoff = RetryBackoff
    /\ retry_call.invocations = 3
    /\ retry_call.slept = <<2, 4>>
    /\ retry_call.value = Value

\* C16: when every one of the max_attempts invocations raises a retryable
\* exception, the wrapper invokes the operation max_attempts times, sleeps
\* after every failure but the last one, returns nothing and raises the
\* exception of the last invocation.
C16_RetryExhaustion ==
    (/\ RetryCallOver
     /\ FailsRetryably(retry_call.max_attempts)) =>
        /\ retry_call.state = "raised"
        /\ retry_call.value = "none"
        /\ retry_call.invocations = retry_call.max_attempts
        /\ Len(retry_call.slept) = retry_call.max_attempts - 1
        /\ retry_call.raised = retry_call.script[retry_call.max_attempts]

\* C16 witness: three failures of different classes, the last one raised.
C16_Witness ==
    /\ retry_call.state = "raised"
    /\ retry_call.max_attempts = 3
    /\ retry_call.invocations = 3
    /\ retry_call.script[1] = "AzureError"
    /\ retry_call.script[3] = "ValueError"
    /\ retry_call.raised = "ValueError"
    /\ Len(retry_call.slept) = 2

\* C17: with the decorator of get_or_create_agent, an authorization failure
\* raised by the first invocation reaches the caller after that single
\* invocation, without any sleep.
C17_NotAuthorizedNotRetried ==
    (/\ RetryCallOver
     /\ retry_call.exceptions = RetryExceptions
     /\ retry_call.max_attempts = RetryMaxAttempts
     /\ retry_call.script[1] = "ClientAuthenticationError") =>
        /\ retry_call.state = "raised"
        /\ retry_call.raised = "ClientAuthenticationError"
        /\ retry_call.invocations = 1
        /\ retry_call.slept = <<>>

\* C18: when the run was not terminal within the 60 s passed to
\* create_and_process, /chat answers with a failure and not with a reply.
C18_RunTimeoutFails ==
    \A p \in Procs :
        (/\ pc[p] = "done"
         /\ req[p].kind = "chat"
         /\ loc[p].run.waited > 60) =>
            /\ resp[p].status = 500
            /\ resp[p].reply = <<>>

\* start_chat of p ends in this step without get_or_create_agent having
\* returned an id.
StartChatEnsureFails(p) ==
    /\ req[p].kind = "start_chat"
    /\ pc[p] \in {"ensure", "create"}
    /\ pc'[p] = "done"

\* C19: a thread is created only by /start_chat after get_or_create_agent
\* returned an id to it; its id is then registered in active_threads and
\* returned with status 200; when get_or_create_agent fails, no thread is
\* created, threads.create is not called, nothing is registered and the
\* answer is an error.
C19_ThreadAfterAgent ==
    [][/\ threads' # threads /\ Len(threads') # Len(threads) =>
            \E p \in Procs :
                LET tid == Len(threads') IN
                /\ Len(threads') = Len(threads) + 1
                /\ req[p].kind = "start_chat"
                /\ pc[p] = "create_thread"
                /\ loc[p].agent_id # NoAgent
                /\ loc[p].agent_id \in {a.id : a \in agents}
                /\ agent_manager'[p].active_threads =
                      agent_manager[p].active_threads \cup {tid}
                /\ pc'[p] = "done"
                /\ resp'[p].status = 200
                /\ resp'[p].thread_id = tid
       /\ \A p \in Procs :
             StartChatEnsureFails(p) =>
                /\ threads' = threads
                /\ \A i \in 1..Len(calls'[p]) : calls'[p][i] # "threads.create"
                /\ agent_manager'[p].active_threads \subseteq agent_manager[p].active_threads
                /\ resp'[p].status = 500
                /\ resp'[p].thread_id = InvalidThreadId]_vars

\* C19 witness: /start_chat answered 200 with the id of the thread it
\* created after the agent was resolved, the id being registered.
C19_Witness ==
    \E p \in Procs :
        /\ pc[p] = "done"
        /\ req[p].kind = "start_chat"
        /\ resp[p].status = 200
        /\ resp[p].thread_id = Len(threads)
        /\ resp[p].thread_id \in agent_manager[p].active_threads
        /\ loc[p].agent_id # NoAgent
        /\ calls[p] = <<"agents.list", "agents.create_agent", "threads.create">>

\* The turns of the user messages of a thread, oldest first.
UserTurns(thread) ==
    LET users == SelectSeq(thread, LAMBDA message : message.role = "user")
    IN [i \in 1..Len(users) |-> users[i].turn]

\* s is an initial part of t.
IsPrefix(s, t) == Len(s) <= Len(t) /\ SubSeq(t, 1, Len(s)) = s

\* C20: when /chat triggers the run, the newest message of the thread is the
\* user message of this request; the run is bound to the thread of the
\* request and to the agent id get_or_create_agent returned to this handler;
\* the user messages of a thread are in the order of their requests; and a
\* thread only grows, so a run is given every message of the earlier sends.
C20_MessageBeforeRun ==
    /\ [](\A p \in Procs :
             /\ pc[p] = "run" =>
                   LET newest == Last(threads[req[p].thread_id]) IN
                   /\ newest.role = "user"
                   /\ newest.turn = req[p].turn
                   /\ loc[p].agent_id # NoAgent
             /\ loc[p].run.status # "none" =>
                   /\ loc[p].run.thread_id = req[p].thread_id
                   /\ loc[p].run.agent_id = loc[p].agent_id
                   /\ loc[p].run.agent_id # NoAgent)
    /\ [](\A t \in 1..Len(threads) :
             \A i, j \in 1..Len(UserTurns(threads[t])) :
                i < j => UserTurns(threads[t])[i] < UserTurns(threads[t])[j])
    /\ [][/\ \A t \in 1..Len(threads) : IsPrefix(threads[t], threads'[t])
          /\ \A p \in Procs :
                pc[p] \in {"create_message", "run", "list_messages"} =>
                   loc'[p].agent_id = loc[p].agent_id]_vars

\* C20 witness: the run of a second send on a thread is about to be
\* triggered, the thread holding the first send's messages and then the
\* user message of this request.
C20_Witness ==
    \E p \in Procs :
        /\ pc[p] = "run"
        /\ LET thread == threads[req[p].thread_id] IN
           /\ Len(thread) = 3
           /\ thread[1].role = "user"
           /\ thread[2].role = "assistant"
           /\ thread[3].role = "user"
           /\ thread[1].turn < thread[3].turn
           /\ thread[3].turn = req[p].turn

\* A step of the /chat handler of p.
ChatStep(p) ==
    /\ req[p].kind = "chat"
    /\ pc[p] \in {"create_message", "run", "list_messages"}
    /\ pc'[p] # pc[p]

\* threads.create of p's /start_chat returns in this step.
ThreadCreated(p) ==
    /\ pc[p] = "create_thread"
    /\ pc'[p] = "done"
    /\ resp'[p].status = 200

Answered(p, kind) == pc[p] = "done" /\ req[p].kind = kind

\* C23 as stated: in production mode (not local, debug off) neither
\* DELETE /cleanup_agent nor POST /reset_agent is carried out.
C23_AdminRefusedInProduction ==
    \A p \in Procs :
        /\ Production(env[p].settings)
        /\ Answered(p, "cleanup_agent") \/ Answered(p, "reset_agent")
        => resp[p].status # 200

\* The handler of an admin request of this kind runs in this step.
AdminStep(p, kind) ==
    /\ pc[p] = "idle"
    /\ pc'[p] = "done"
    /\ req'[p].kind = kind

\* C24: when POST /reset_agent calls reset_agent(), the manager is left
\* without a cached agent id, with validation time zero and with no thread
\* recorded, and no remote call is made: the platform's agents and threads
\* and the blob store stay as they are.  The resets DELETE /cleanup_agent
\* makes leave the manager in the same state.
C24_ResetFrame ==
    [][\A p \in Procs :
          /\ AdminStep(p, "reset_agent") /\ resp'[p].status = 200 =>
                /\ agent_manager'[p] = NewAgentManager
                /\ calls'[p] = <<>>
                /\ UNCHANGED <<agents, agent_seq, threads, blobs, now, faults>>
          /\ AdminStep(p, "cleanup_agent") /\ resp'[p].body.status \in {"deleted", "reset"} =>
                agent_manager'[p] = NewAgentManager
      ]_vars

\* C24 witness: /reset_agent answered 200 in a process that had resolved the
\* agent and issued a thread: both are still on the platform, the manager
\* holds neither.
C24_Witness ==
    \E p \in Procs :
        /\ Answered(p, "reset_agent")
        /\ resp[p].status = 200
        /\ agent_manager[p] = NewAgentManager
        /\ NamedAgents # {}
        /\ Len(threads) > 0
        /\ calls[p] = <<>>

\* A request of this kind arrives at p in this step.
Arrives(p, kind) ==
    /\ pc[p] = "idle"
    /\ requests' = requests + 1
    /\ req'[p].kind = kind

\* C25: without a manager (the project client could not be built)
\* /start_chat and /chat answer 503 at once: no remote call is made and
\* nothing of the manager, the platform, the blob store or the clock changes.
C25_UnconfiguredRefused ==
    [][\A p \in Procs :
          /\ ~env[p].project_client
          /\ Arrives(p, "start_chat") \/ Arrives(p, "chat")
          => /\ pc'[p] = "done"
             /\ resp'[p].status = 503
             /\ calls'[p] = <<>>
             /\ UNCHANGED <<agent_manager, agents, agent_seq, threads, blobs,
                            now, faults, env, blob_service_client>>
      ]_vars

\* C25 witness: /chat answered 503 in a process without a project client.
C25_Witness ==
    \E p \in Procs :
        /\ ~env[p].project_client
        /\ Answered(p, "chat")
        /\ resp[p].status = 503
        /\ calls[p] = <<>>

\* C28: GET /health always answers 200 with boolean agent_ready and
\* storage_ready, also when a probe raised; its status is "healthy" exactly
\* when agent_ready, storage_ready and every configuration flag are true;
\* and agent_ready is true only when get_or_create_agent returned an id to
\* the handler.
C28_HealthAlwaysAnswers ==
    \A p \in Procs :
        /\ req[p].kind = "health" => pc[p] \in {"ensure", "create", "health_storage", "done"}
        /\ Answered(p, "health") =>
              LET body == resp[p].body IN
              /\ resp[p].status = 200
              /\ body.agent_ready \in BOOLEAN
              /\ body.storage_ready \in BOOLEAN
              /\ body.status = "healthy" <=>
                    /\ body.agent_ready
                    /\ body.storage_ready
                    /\ \A k \in DOMAIN body.configuration : body.configuration[k]
              /\ body.agent_ready =>
                    /\ loc[p].agent_id # NoAgent
                    /\ loc[p].agent_id = agent_manager[p].agent_id
                    /\ loc[p].error = <<>>
              /\ body.storage_ready => blob_service_client[p]

\* C28 witness: /health answered 200 "degraded" after its agent probe raised
\* while the storage probe succeeded.
C28_Witness ==
    \E p \in Procs :
        /\ Answered(p, "health")
        /\ resp[p].status = 200
        /\ loc[p].error \in TransientErrors
        /\ ~resp[p].body.agent_ready
        /\ resp[p].body.storage_ready
        /\ resp[p].body.status = "degraded"

\* C26 as stated: while the /chat handler of a process waits for its run, a
\* /start_chat or a /chat of another conversation can begin in that process.
C26_NoStallWhileRunBlocked ==
    \A p \in Procs :
        pc[p] = "run" /\ requests < MaxRequests =>
            ENABLED (StartChat(p) \/ Chat(p))

\* C30: /chat never consults the manager's thread map.  A thread the
\* platform knows is never reported unknown, whether the map holds it or
\* not, and /chat adds nothing to the map.
C30_BookkeepingAdvisory ==
    /\ [](\A p \in Procs :
             Answered(p, "chat") /\ KnownThread(req[p].thread_id) =>
                /\ loc[p].error # ErrThreadNotFound
                /\ resp[p].detail # THREAD_DETAIL)
    /\ [][\A p \in Procs :
             ChatStep(p) =>
                agent_manager'[p].active_threads \subseteq agent_manager[p].active_threads
         ]_vars

\* C30 witness: /chat answered 200 on a thread the manager's map does not
\* hold: the map was emptied (reset_agent(), or a restart of the process)
\* after the thread was issued.
C30_Witness ==
    \E p \in Procs :
        /\ Answered(p, "chat")
        /\ resp[p].status = 200
        /\ KnownThread(req[p].thread_id)
        /\ req[p].thread_id \notin agent_manager[p].active_threads

\* /chat of p on thread tid failed because the platform no longer knows the
\* agent id the handler used, and the caller can still send.
StaleFailure(p, tid) ==
    /\ Answered(p, "chat")
    /\ req[p].thread_id = tid
    /\ resp[p].status = 500
    /\ loc[p].run.status = "failed"
    /\ ~KnownAgent(loc[p].run.agent_id)
    /\ requests < MaxRequests

\* The turn of p on thread tid succeeded in a send the caller repeated, whose
\* handler listed the agents again and ran with an agent the platform knows.
Recovered(p, tid) ==
    /\ Answered(p, "chat")
    /\ req[p].thread_id = tid
    /\ resp[p].status = 200
    /\ client[p].retry_count > 0
    /\ Head(calls[p]) = "agents.list"
    /\ "threads.create" \notin {calls[p][i] : i \in DOMAIN calls[p]}
    /\ KnownAgent(loc[p].agent_id)
    /\ agent_manager[p].agent_id = loc[p].agent_id

\* C22: when /chat fails because the platform no longer knows the cached
\* agent id (the run fails with a not-found last_error), the cache is
\* emptied at once, and on a platform that is otherwise healthy the send
\* the chat UI repeats resolves the agent again and the same turn ends in a
\* reply on the same thread, no new thread being created; the freshness
\* interval need not pass, since the repeated send finds the cache empty.
C22_StaleAgentRecovers ==
    /\ [](\A p \in Procs : \A tid \in 1..MaxRequests :
             StaleFailure(p, tid) => agent_manager[p].agent_id = NoAgent)
    /\ (\E tid \in 1..MaxRequests : StaleFailure(Server, tid))
          ~> (\E tid \in 1..MaxRequests : Recovered(Server, tid))

\* C22 witness: the turn succeeded in a repeated send that created the agent
\* anew, less than the freshness interval after the start.
C22_Witness ==
    \E p \in Procs :
        /\ Recovered(p, req[p].thread_id)
        /\ SubSeq(calls[p], 1, 2) = <<"agents.list", "agents.create_agent">>
        /\ faults = 1
        /\ now < CheckInterval

\* The cached id of p exists and was validated 300 s ago or more.
Expired(p) ==
    /\ agent_manager[p].agent_id # NoAgent
    /\ now - agent_manager[p].last_check_time >= 300

\* C29: a call of get_or_create_agent made once the cached id is 300 s old
\* lists the agents again.  When an agent of the name exists the call
\* returns and caches one of them; when none exists any more it goes on to
\* create one, and the id of the created agent, a new one, replaces the
\* cached id.  Either way the validation time becomes the time of the call,
\* so the cached id is fresh again when the call returns.
C29_ExpiredCacheRevalidated ==
    [][\A p \in Procs :
          /\ EnsureStep(p) /\ Expired(p) =>
                /\ calls'[p] = Append(calls[p], "agents.list")
                /\ IF NamedAgents = {}
                   THEN pc'[p] = "create"
                   ELSE /\ EnsureReturns(p)
                        /\ loc'[p].agent_id \in {a.id : a \in NamedAgents}
          /\ pc[p] = "create" /\ EnsureReturns(p) =>
                /\ calls'[p] = Append(calls[p], "agents.create_agent")
                /\ loc'[p].agent_id \notin {a.id : a \in agents}
                /\ loc'[p].agent_id \in {a.id : a \in NamedAgents'}
                /\ loc'[p].agent_id # agent_manager[p].agent_id
          /\ EnsureReturns(p) /\ calls'[p] # calls[p] =>
                /\ agent_manager'[p].agent_id = loc'[p].agent_id
                /\ agent_manager'[p].last_check_time = now
                /\ now' = now
                /\ Fresh(p)'
      ]_vars

\* C29 witness: 300 s after the id was validated its agent was gone, and the
\* call listed the agents, created a new agent and cached its id with the
\* time of the call.
C29_Witness ==
    \E p \in Procs :
        /\ pc[p] \in {"create_thread", "create_message"}
        /\ calls[p] = <<"agents.list", "agents.create_agent">>
        /\ faults = 1
        /\ now >= 300
        /\ agent_manager[p].agent_id = loc[p].agent_id
        /\ agent_manager[p].agent_id = agent_seq
        /\ agent_seq > 2
        /\ agent_manager[p].last_check_time = now

\* C27: what process_image hands to upload_blob is always the bytes of the
\* image.  When the download returns the bytes themselves or a dict holding
\* them under 'content', and the upload returns, exactly these bytes are
\* uploaded; and upload_blob is never reached with a value that holds no
\* bytes (io.BytesIO rejects it, and the function returns None).
C27_UploadGivenBytes ==
    image_call.state = "returned" =>
        LET r == image_call.result
            file_content == image_call.file_content
        IN /\ r.outcome = "stored" =>
                 /\ r.uploaded # <<>>
                 /\ r.uploaded = UnderlyingBytes(file_content)
                 /\ r.uploaded = <<"P","N","G">> \o image_call.image_content.file_id
           /\ (/\ blob_service_client[Server]
               /\ HasFileId(image_call.image_content)
               /\ image_call.download = "ok"
               /\ Head(image_call.uploads) = "ok"
               /\ \/ file_content.type = "bytes"
                  \/ /\ file_content.type = "dict"
                     /\ "content" \in DOMAIN file_content.items
                     /\ file_content.items.content.type = "bytes")
                 => /\ r.outcome = "stored"
                    /\ r.uploaded = UnderlyingBytes(file_content)
           /\ (\E i \in DOMAIN r.calls : r.calls[i] = "upload_blob") =>
                 UnderlyingBytes(file_content) # <<>>
           /\ UnderlyingBytes(file_content) = <<>> => r.url = NoUrl /\ r.raised = NoError

\* C27 witness: the download returned a dict holding the bytes under
\* 'content', and process_image uploaded these bytes.
C27_Witness ==
    /\ image_call.state = "returned"
    /\ image_call.file_content.type = "dict"
    /\ image_call.result.outcome = "stored"
    /\ image_call.result.uploaded = ImageData(image_call.image_content.file_id)

====
